---- MODULE Spec2Model ----
(***************************************************************************)
(* Model of import_movesets.py: the moveset override resolution of a cup.  *)
(* Python strings are TLA+ strings, dicts are functions (records with      *)
(* optional fields), lists are sequences.                                  *)
(***************************************************************************)
EXTENDS Integers, Sequences, FiniteSets, TLC

\* ------------------------------------------------------------------ bounds
\* Longest ranking file explored.
MaxRank == 2
\* Most records in the override file given with --override-file.
MaxOverrideFile == 1

\* ------------------------------------------------------- strings and dicts
\* str.upper() on the move codes that occur in the explored documents.
Upper(s) ==
  CASE s = "fa" -> "FA"
    [] s = "fb" -> "FB"
    [] s = "fc" -> "FC"
    [] s = "ca" -> "CA"
    [] s = "cb" -> "CB"
    [] OTHER -> s

\* str.lower() on the species ids and answers that occur.
Lower(s) ==
  CASE s = "B" -> "b"
    [] s = "Y" -> "y"
    [] s = "N" -> "n"
    [] OTHER -> s

\* [m.upper() for m in moves]
UpperAll(moves) == [i \in 1..Len(moves) |-> Upper(moves[i])]

\* Python's str ordering (by code point) on the species ids that occur:
\* upper-case letters sort before lower-case ones.
StringOrder == <<"B", "a", "b", "c">>
StrPos(s) == CHOOSE i \in 1..Len(StringOrder) : StringOrder[i] = s
StrLess(s, t) == StrPos(s) < StrPos(t)

\* The elements of a list, as a set.
Range(seq) == {seq[i] : i \in 1..Len(seq)}

\* [m for m in moves if m not in excluded], order kept.
RECURSIVE Without(_, _)
Without(moves, excluded) ==
  IF moves = <<>> THEN <<>>
  ELSE IF Head(moves) \in excluded THEN Without(Tail(moves), excluded)
       ELSE <<Head(moves)>> \o Without(Tail(moves), excluded)

\* The empty dict.
EmptyDict == [k \in {} |-> 0]

\* d[k][field] = value, creating d[k] = {"speciesId": species_id} on first touch.
RecordChoice(d, species_id, field, value) ==
  LET key == Lower(species_id)
      old == IF key \in DOMAIN d THEN d[key] ELSE [speciesId |-> species_id]
  IN  (key :> ((field :> value) @@ old)) @@ d

\* SortBySpeciesId with the sort forgotten: the list in ranking order.
SortBySpeciesId_RankingOrder(list) == list

\* list.sort(key=lambda x: x["speciesId"]): a stable sort.
RECURSIVE InsertBySpeciesId(_, _)
InsertBySpeciesId(sorted, x) ==
  IF sorted = <<>> THEN <<x>>
  ELSE IF StrLess(x.speciesId, Head(sorted).speciesId) THEN <<x>> \o sorted
       ELSE <<Head(sorted)>> \o InsertBySpeciesId(Tail(sorted), x)

RECURSIVE SortBySpeciesId(_)
SortBySpeciesId(list) ==
  IF list = <<>> THEN <<>>
  ELSE InsertBySpeciesId(SortBySpeciesId(SubSeq(list, 1, Len(list) - 1)), list[Len(list)])

\* sorted(d.values(), key=lambda x: x["speciesId"])
RECURSIVE SortedValues(_)
SortedValues(d) ==
  IF DOMAIN d = {} THEN <<>>
  ELSE LET k == CHOOSE k \in DOMAIN d :
                  \A j \in DOMAIN d : ~StrLess(d[j].speciesId, d[k].speciesId)
       IN  <<d[k]>> \o SortedValues([j \in DOMAIN d \ {k} |-> d[j]])

\* ----------------------------------------------------------- the documents
\* pokemon.json: the catalog. "B" has no entry.
pokemon_data_list ==
  << [speciesId |-> "a", fastMoves |-> <<"FA", "FB", "FC">>,
      chargedMoves |-> <<"CA", "CB", "CC">>],
     [speciesId |-> "b", fastMoves |-> <<"fa", "FB">>,
      chargedMoves |-> <<"CA", "CB">>],
     [speciesId |-> "c", fastMoves |-> <<"FA">>,
      chargedMoves |-> <<"cb", "CC", "CA">>] >>

\* pokemon_data = {p["speciesId"]: p for p in pokemon_data_list}
pokemon_data ==
  [s \in {pokemon_data_list[i].speciesId : i \in 1..Len(pokemon_data_list)} |->
     pokemon_data_list[CHOOSE i \in 1..Len(pokemon_data_list) :
        /\ pokemon_data_list[i].speciesId = s
        /\ \A j \in (i + 1)..Len(pokemon_data_list) : pokemon_data_list[j].speciesId # s]]

\* An entry of a cup's exclude list is a str or a dict.
StrEntry(s) == [type |-> "str", str |-> s]
DictEntry(d) == [type |-> "dict", dict |-> d]

\* The "values" lists of the move exclusion rules explored.
BanLists ==
  { <<>>, <<"fa">>, <<"FA", "FB">>, <<"FA", "FB", "FC">>, <<"CA">>,
    <<"ca", "CB">>, <<"FA", "CA">>, <<"FA", "FB", "CA", "CB">>,
    <<"FA", "CA", "CB", "CC">> }

IncludeRules == << [filterType |-> "id", values |-> <<"a", "b", "B", "c">>] >>

\* The ways a cup names a species to exclude.
IdExclusions ==
  { StrEntry("c"),
    DictEntry([speciesId |-> "c"]),
    DictEntry([filterType |-> "id", values |-> <<"c">>]) }

\* The cup definitions of gamemaster.json explored.
CupDefinitions ==
  { [name |-> "cup", include |-> IncludeRules,
     exclude |-> << DictEntry([filterType |-> "move", values |-> b]) >>] : b \in BanLists }
  \cup
  { [name |-> "cup", include |-> IncludeRules,
     exclude |-> << DictEntry([filterType |-> "move", values |-> <<"FA", "CA">>]), x >>] :
       x \in IdExclusions }
  \cup
  { [name |-> "cup", include |-> IncludeRules],
    [name |-> "cup", exclude |-> << DictEntry([filterType |-> "move", values |-> <<"FA">>]) >>] }

\* The entries of rankings-<league>.json explored; a ranking names each species once.
RankEntries ==
  { [speciesId |-> "a", moveset |-> <<"FA", "CA", "CB">>],
    [speciesId |-> "a", moveset |-> <<"fb", "CB", "CC">>],
    [speciesId |-> "b", moveset |-> <<"FA", "CA", "CB">>],
    [speciesId |-> "B", moveset |-> <<"FC", "CA", "CC">>],
    [speciesId |-> "c", moveset |-> <<"FB", "CC", "ca">>] }

RankingsOfLen(n) ==
  { r \in [1..n -> RankEntries] :
      \A i, j \in 1..n : i # j => r[i].speciesId # r[j].speciesId }

Rankings == UNION { RankingsOfLen(n) : n \in 0..MaxRank }

\* The records of the override file explored.
OverrideRecords ==
  { [speciesId |-> "a"],
    [speciesId |-> "a", weight |-> 3],
    [speciesId |-> "a", fastMove |-> "fb"],
    [speciesId |-> "a", fastMove |-> "FA", chargedMoves |-> <<"CA", "CC">>, weight |-> 3],
    [speciesId |-> "a", chargedMoves |-> <<"cb", "CC">>],
    [speciesId |-> "a", chargedMoves |-> <<>>],
    [speciesId |-> "a", fastMove |-> "FC", chargedMoves |-> <<"CC", "CC">>],
    [speciesId |-> "B", fastMove |-> "FB", weight |-> 3],
    [speciesId |-> "b", chargedMoves |-> <<"CB", "CC">>],
    [fastMove |-> "FB"] }

OverrideFiles ==
  UNION { [1..n -> OverrideRecords] : n \in 0..MaxOverrideFile }

\* __main__: predefined_overrides[override["speciesId"].lower()] = override
RECURSIVE LoadOverrides(_)
LoadOverrides(overrides_list) ==
  IF overrides_list = <<>> THEN EmptyDict
  ELSE LET override == overrides_list[Len(overrides_list)]
           before == LoadOverrides(SubSeq(overrides_list, 1, Len(overrides_list) - 1))
       IN  IF "speciesId" \in DOMAIN override
           THEN (Lower(override.speciesId) :> override) @@ before
           ELSE before

\* ------------------------------------------------------------------- state
VARIABLES
  cup_definition,          \* the cup's entry of gamemaster.json
  rankings,                \* the ranking document
  predefined_overrides,    \* dict loaded from the override file
  banned_moves,            \* set of upper-cased move codes
  eligible_pokemon_ids,    \* set of species ids
  pc,                      \* position of the script
  rank_idx,                \* index of the ranking entry being processed
  fast_move,               \* the entry's fast move so far
  slot,                    \* index of the charged move being resolved
  final_charged_moves,     \* the entry's charged moves so far
  valid_alternatives,      \* the menu of the running prompt
  choice,                  \* the prompt's last numeric answer
  newly_chosen_overrides,  \* dict of the choices made in this session
  overrides,               \* the movesets assembled so far
  stdout,                  \* the JSON documents printed
  saved_file,              \* the override documents written
  stdin_eof,               \* standard input has reached end-of-input
  rerun,                   \* this is the session run on the saved file
  save_choice              \* the last answer to the question whether to save

vars == << cup_definition, rankings, predefined_overrides, banned_moves,
           eligible_pokemon_ids, pc, rank_idx, fast_move, slot, final_charged_moves,
           valid_alternatives, choice, newly_chosen_overrides, overrides, stdout,
           saved_file, stdin_eof, rerun, save_choice >>

inputs == << cup_definition, rankings >>
entry_vars == << fast_move, slot, final_charged_moves, valid_alternatives, choice >>

Init ==
  /\ cup_definition \in CupDefinitions
  /\ rankings \in Rankings
  /\ predefined_overrides \in { LoadOverrides(f) : f \in OverrideFiles }
  /\ banned_moves = {}
  /\ eligible_pokemon_ids = {}
  /\ pc = "extract"
  /\ rank_idx = 1
  /\ fast_move = ""
  /\ slot = 1
  /\ final_charged_moves = <<>>
  /\ valid_alternatives = <<>>
  /\ choice = -1
  /\ newly_chosen_overrides = EmptyDict
  /\ overrides = <<>>
  /\ stdout = <<>>
  /\ saved_file = <<>>
  /\ stdin_eof = FALSE
  /\ rerun = FALSE
  /\ save_choice = ""

\* --------------------------------------------------- bans and eligibility
ExcludeList(cup) == IF "exclude" \in DOMAIN cup THEN cup.exclude ELSE <<>>
IncludeList(cup) == IF "include" \in DOMAIN cup THEN cup.include ELSE <<>>

\* rule.get("filterType") == t
HasFilterType(d, t) == "filterType" \in DOMAIN d /\ d.filterType = t

\* rule.get("values", [])
ValuesOf(d) == IF "values" \in DOMAIN d THEN d.values ELSE <<>>

\* The loop over cup_definition["exclude"] that collects the banned moves calls
\* rule.get on every entry: a str entry has no get.
BanLoopRaises(cup) ==
  \E i \in 1..Len(ExcludeList(cup)) : ExcludeList(cup)[i].type = "str"

BannedMovesOf(cup) ==
  UNION { Range(UpperAll(ValuesOf(ExcludeList(cup)[i].dict))) :
            i \in { j \in 1..Len(ExcludeList(cup)) :
                      /\ ExcludeList(cup)[j].type = "dict"
                      /\ HasFilterType(ExcludeList(cup)[j].dict, "move") } }

IncludedIds(cup) ==
  UNION { Range(IncludeList(cup)[i].values) :
            i \in { j \in 1..Len(IncludeList(cup)) :
                      HasFilterType(IncludeList(cup)[j], "id") } }

\* The ids the loop over cup_definition["exclude"] removes.
RemovedIds(cup) ==
  { ExcludeList(cup)[i].str : i \in { j \in 1..Len(ExcludeList(cup)) :
                                          ExcludeList(cup)[j].type = "str" } }
  \cup
  { ExcludeList(cup)[i].dict.speciesId :
      i \in { j \in 1..Len(ExcludeList(cup)) :
                /\ ExcludeList(cup)[j].type = "dict"
                /\ "speciesId" \in DOMAIN ExcludeList(cup)[j].dict } }

EligibleOf(cup) == IncludedIds(cup) \ RemovedIds(cup)

ExtractRules ==
  /\ pc = "extract"
  /\ IF BanLoopRaises(cup_definition)
     THEN /\ pc' = "crashed"
          /\ UNCHANGED << banned_moves, eligible_pokemon_ids >>
     ELSE /\ banned_moves' = BannedMovesOf(cup_definition)
          /\ eligible_pokemon_ids' = EligibleOf(cup_definition)
          /\ pc' = "loop"
  /\ UNCHANGED << inputs, predefined_overrides, rank_idx, entry_vars,
                  newly_chosen_overrides, overrides, stdout, saved_file, stdin_eof, rerun, save_choice >>

\* ------------------------------------------------------ the ranking loop
rank == rankings[rank_idx]
species_id == rank.speciesId
species_key == Lower(species_id)

\* predefined_overrides.get(species_id.lower()) is a record
HasOverride == species_key \in DOMAIN predefined_overrides
override_data == predefined_overrides[species_key]
HasOverrideField(field) == HasOverride /\ field \in DOMAIN override_data

\* PreferredFastMove with the .upper() forgotten.
PreferredFastMove_AsWritten(r) == r.moveset[1]

\* fast_move = rank["moveset"][0].upper()
PreferredFastMove(r) == Upper(r.moveset[1])

\* FastAlternatives with the filter on banned_moves forgotten.
FastAlternatives_KeepBanned(id) == UpperAll(pokemon_data[id].fastMoves)

\* valid_alternatives of the fast move: the catalog's fast moves that are not banned.
FastAlternatives(id) ==
  Without(UpperAll(pokemon_data[id].fastMoves), banned_moves)

\* ChargedAlternatives with the filter on final_charged_moves forgotten.
ChargedAlternatives_IgnoreAccepted(id, accepted) ==
  Without(UpperAll(pokemon_data[id].chargedMoves), banned_moves)

\* ChargedAlternatives with the list turned round: the last move of the catalog first.
ChargedAlternatives_Reversed(id, accepted) ==
  LET kept == Without(UpperAll(pokemon_data[id].chargedMoves),
                      banned_moves \cup Range(accepted))
  IN  [i \in 1..Len(kept) |-> kept[Len(kept) + 1 - i]]

\* valid_alternatives of a charged move: the catalog's charged moves that are
\* neither banned nor already in final_charged_moves.
ChargedAlternatives(id, accepted) ==
  Without(UpperAll(pokemon_data[id].chargedMoves), banned_moves \cup Range(accepted))

\* The fast move is recorded only for a species with no predefined record at all.
RecordFastMove(newly, move) ==
  IF ~HasOverride THEN RecordChoice(newly, species_id, "fastMove", move) ELSE newly

\* continue: on to the next ranking entry.
NextRank ==
  /\ rank_idx' = rank_idx + 1
  /\ pc' = "loop"

\* IsEligible with the test forgotten: every ranking entry is resolved.
IsEligible_Always(id) == TRUE

\* species_id in eligible_pokemon_ids
IsEligible(id) == id \in eligible_pokemon_ids

\* One ranking entry up to the end of its fast move handling, or up to the
\* prompt for a replacement of its fast move.
FastMoveHandling ==
  /\ pc = "loop"
  /\ rank_idx <= Len(rankings)
  /\ IF ~IsEligible(species_id)
     THEN /\ NextRank
          /\ UNCHANGED << entry_vars, newly_chosen_overrides >>
     ELSE LET preferred == PreferredFastMove(rank) IN
          IF preferred \notin banned_moves
          THEN /\ fast_move' = preferred
               /\ pc' = "charged"
               /\ UNCHANGED << rank_idx, slot, final_charged_moves, valid_alternatives,
                               choice, newly_chosen_overrides >>
          ELSE IF species_id \notin DOMAIN pokemon_data
          THEN /\ NextRank
               /\ fast_move' = preferred
               /\ UNCHANGED << slot, final_charged_moves, valid_alternatives, choice,
                               newly_chosen_overrides >>
          ELSE LET alternatives == FastAlternatives(species_id) IN
               /\ valid_alternatives' = alternatives
               /\ IF Len(alternatives) = 1
                  THEN /\ fast_move' = alternatives[1]
                       /\ newly_chosen_overrides' =
                            RecordFastMove(newly_chosen_overrides, alternatives[1])
                       /\ pc' = "charged"
                       /\ UNCHANGED << rank_idx, choice >>
                  ELSE IF Len(alternatives) > 1
                  THEN IF /\ HasOverrideField("fastMove")
                          /\ Upper(override_data.fastMove) \in Range(alternatives)
                       THEN /\ fast_move' = Upper(override_data.fastMove)
                            /\ newly_chosen_overrides' =
                                 RecordFastMove(newly_chosen_overrides,
                                                Upper(override_data.fastMove))
                            /\ pc' = "charged"
                            /\ UNCHANGED << rank_idx, choice >>
                       ELSE /\ fast_move' = preferred
                            /\ choice' = -1
                            /\ pc' = "fast_prompt"
                            /\ UNCHANGED << rank_idx, newly_chosen_overrides >>
                  ELSE /\ NextRank
                       /\ fast_move' = preferred
                       /\ UNCHANGED << choice, newly_chosen_overrides >>
               /\ UNCHANGED << slot, final_charged_moves >>
  /\ UNCHANGED << inputs, predefined_overrides, banned_moves, eligible_pokemon_ids,
                  overrides, stdout, saved_file, stdin_eof, rerun, save_choice >>

\* What input() can return or raise at a prompt for a number.
PromptInputs ==
  { [kind |-> "int", n |-> k] : k \in 0..(Len(valid_alternatives) + 1) }
  \cup { [kind |-> "text", n |-> 0], [kind |-> "eof", n |-> 0] }

\* The condition of the prompt's loop with its lower limit off by one.
ChoiceOutOfRange_ZeroAccepted(n) == n < 0 \/ n > Len(valid_alternatives)

\* while choice < 1 or choice > len(valid_alternatives)
ChoiceOutOfRange(n) == n < 1 \/ n > Len(valid_alternatives)

\* valid_alternatives[choice - 1]: a negative index counts from the end of the list
ChosenMove(n) ==
  IF n - 1 >= 0
  THEN valid_alternatives[n]
  ELSE valid_alternatives[Len(valid_alternatives) + n]

\* One round of the loop that asks for the replacement of a banned fast move.
FastPrompt ==
  /\ pc = "fast_prompt"
  /\ \E inp \in PromptInputs :
       IF stdin_eof \/ inp.kind = "eof"
       THEN \* EOFError is caught like ValueError: the loop goes round again
            /\ stdin_eof' = TRUE
            /\ UNCHANGED << pc, fast_move, choice, newly_chosen_overrides >>
       ELSE IF inp.kind = "text"
       THEN UNCHANGED << pc, fast_move, choice, newly_chosen_overrides, stdin_eof >>
       ELSE /\ choice' = inp.n
            /\ IF ChoiceOutOfRange(inp.n)
               THEN UNCHANGED << pc, fast_move, newly_chosen_overrides >>
               ELSE /\ fast_move' = ChosenMove(inp.n)
                    /\ newly_chosen_overrides' =
                         RecordFastMove(newly_chosen_overrides, ChosenMove(inp.n))
                    /\ pc' = "charged"
            /\ UNCHANGED stdin_eof
  /\ UNCHANGED << inputs, predefined_overrides, banned_moves, eligible_pokemon_ids,
                  rank_idx, slot, final_charged_moves, valid_alternatives, overrides,
                  stdout, saved_file, rerun, save_choice >>

\* current_charged_moves read from the predefined chargedMoves when the record
\* has them, and from the ranking entry otherwise.
current_charged_moves_OfOverride ==
  IF HasOverrideField("chargedMoves")
  THEN UpperAll(override_data.chargedMoves)
  ELSE UpperAll(Tail(rank.moveset))

\* current_charged_moves = [cm.upper() for cm in rank["moveset"][1:]]
current_charged_moves == UpperAll(Tail(rank.moveset))

\* ChargedOverrideUsable with the check against banned_moves forgotten.
ChargedOverrideUsable_Unchecked == HasOverrideField("chargedMoves")

\* The predefined full "chargedMoves" override is used when none of its moves is banned.
ChargedOverrideUsable ==
  /\ HasOverrideField("chargedMoves")
  /\ Range(UpperAll(override_data.chargedMoves)) \cap banned_moves = {}

\* final_charged_moves was taken from the predefined override, so the loop over
\* current_charged_moves does not run.
TookOverrideVerbatim ==
  ChargedOverrideUsable /\ override_data.chargedMoves # <<>>

\* The check for a complete predefined "chargedMoves" override.
ChargedOverride ==
  /\ pc = "charged"
  /\ final_charged_moves' =
       IF ChargedOverrideUsable THEN UpperAll(override_data.chargedMoves) ELSE <<>>
  /\ slot' = 1
  /\ pc' = IF final_charged_moves' = <<>> THEN "slots" ELSE "track"
  /\ UNCHANGED << inputs, predefined_overrides, banned_moves, eligible_pokemon_ids,
                  rank_idx, fast_move, valid_alternatives, choice, newly_chosen_overrides,
                  overrides, stdout, saved_file, stdin_eof, rerun, save_choice >>

\* One round of the loop over current_charged_moves, up to the prompt if it needs one.
ChargedSlot ==
  /\ pc = "slots"
  /\ IF slot > Len(current_charged_moves)
     THEN /\ pc' = "track"
          /\ UNCHANGED << slot, final_charged_moves, valid_alternatives, choice >>
     ELSE LET charged_move == current_charged_moves[slot] IN
          IF charged_move \notin banned_moves
          THEN /\ final_charged_moves' = Append(final_charged_moves, charged_move)
               /\ slot' = slot + 1
               /\ UNCHANGED << pc, valid_alternatives, choice >>
          ELSE IF species_id \notin DOMAIN pokemon_data
          THEN /\ slot' = slot + 1
               /\ UNCHANGED << pc, final_charged_moves, valid_alternatives, choice >>
          ELSE LET alternatives == ChargedAlternatives(species_id, final_charged_moves) IN
               /\ valid_alternatives' = alternatives
               /\ IF Len(alternatives) = 1
                  THEN /\ final_charged_moves' = Append(final_charged_moves, alternatives[1])
                       /\ slot' = slot + 1
                       /\ UNCHANGED << pc, choice >>
                  ELSE IF Len(alternatives) > 1
                  THEN /\ choice' = -1
                       /\ pc' = "charged_prompt"
                       /\ UNCHANGED << slot, final_charged_moves >>
                  ELSE /\ slot' = slot + 1
                       /\ UNCHANGED << pc, final_charged_moves, choice >>
  /\ UNCHANGED << inputs, predefined_overrides, banned_moves, eligible_pokemon_ids,
                  rank_idx, fast_move, newly_chosen_overrides, overrides, stdout,
                  saved_file, stdin_eof, rerun, save_choice >>

\* One round of the loop that asks for the replacement of a banned charged move.
ChargedPrompt ==
  /\ pc = "charged_prompt"
  /\ \E inp \in PromptInputs :
       IF stdin_eof \/ inp.kind = "eof"
       THEN /\ stdin_eof' = TRUE
            /\ UNCHANGED << pc, slot, final_charged_moves, choice >>
       ELSE IF inp.kind = "text"
       THEN UNCHANGED << pc, slot, final_charged_moves, choice, stdin_eof >>
       ELSE /\ choice' = inp.n
            /\ IF ChoiceOutOfRange(inp.n)
               THEN UNCHANGED << pc, slot, final_charged_moves >>
               ELSE /\ final_charged_moves' =
                         Append(final_charged_moves, ChosenMove(inp.n))
                    /\ slot' = slot + 1
                    /\ pc' = "slots"
            /\ UNCHANGED stdin_eof
  /\ UNCHANGED << inputs, predefined_overrides, banned_moves, eligible_pokemon_ids,
                  rank_idx, fast_move, valid_alternatives, newly_chosen_overrides,
                  overrides, stdout, saved_file, rerun, save_choice >>

\* The charged moves are recorded when their set differs from the ranking's and the
\* predefined record has no "chargedMoves" key.
RecordChargedMoves(newly, moves) ==
  IF /\ Range(moves) # Range(current_charged_moves)
     /\ ~HasOverrideField("chargedMoves")
  THEN RecordChoice(newly, species_id, "chargedMoves", moves)
  ELSE newly

\* WeightOf with the weight of the record read only where its chargedMoves are used.
WeightOf_OnlyWithUsedOverride ==
  IF HasOverrideField("weight") /\ ChargedOverrideUsable THEN override_data.weight ELSE 1

\* weight = override_data["weight"] if the predefined record has one, else 1
WeightOf == IF HasOverrideField("weight") THEN override_data.weight ELSE 1

\* The end of a ranking entry: the record of new charged moves, the weight and
\* the moveset appended to overrides.
TrackAndAssemble ==
  /\ pc = "track"
  /\ newly_chosen_overrides' =
       RecordChargedMoves(newly_chosen_overrides, final_charged_moves)
  /\ overrides' = Append(overrides, [speciesId |-> species_id,
                                      fastMove |-> fast_move,
                                      chargedMoves |-> final_charged_moves,
                                      weight |-> WeightOf])
  /\ NextRank
  /\ UNCHANGED << inputs, predefined_overrides, banned_moves, eligible_pokemon_ids,
                  entry_vars, stdout, saved_file, stdin_eof, rerun, save_choice >>

\* After the last ranking entry: overrides.sort and print(json.dumps(overrides)).
SortAndPrint ==
  /\ pc = "loop"
  /\ rank_idx > Len(rankings)
  /\ overrides' = SortBySpeciesId(overrides)
  /\ stdout' = Append(stdout, overrides')
  /\ pc' = "main"
  /\ UNCHANGED << inputs, predefined_overrides, banned_moves, eligible_pokemon_ids,
                  rank_idx, entry_vars, newly_chosen_overrides, saved_file, stdin_eof,
                  rerun, save_choice >>

\* ------------------------------------------------------------------ __main__
\* What input() can return or raise at the question whether to save.
SaveInputs == {"y", "Y", "n", "maybe", "eof"}

\* The question whether to save asked whatever the session chose.
OffersSave_Always == TRUE

\* if newly_chosen_overrides:
OffersSave == newly_chosen_overrides # EmptyDict

\* Back in __main__: one round of the loop that asks whether to save, when
\* choices were made.
SaveChoice ==
  /\ pc = "main"
  /\ IF ~OffersSave
     THEN /\ pc' = "done"
          /\ UNCHANGED << stdin_eof, save_choice >>
     ELSE \E inp \in SaveInputs :
            IF inp = "eof"
            THEN \* EOFError is not caught here
                 /\ stdin_eof' = TRUE
                 /\ pc' = "crashed"
                 /\ UNCHANGED save_choice
            ELSE /\ save_choice' = Lower(inp)
                 /\ pc' = CASE save_choice' = "y" -> "persist"
                            [] save_choice' = "n" -> "done"
                            [] OTHER -> "main"
                 /\ UNCHANGED stdin_eof
  /\ UNCHANGED << inputs, predefined_overrides, banned_moves, eligible_pokemon_ids,
                  rank_idx, entry_vars, newly_chosen_overrides, overrides, stdout,
                  saved_file, rerun >>

\* MergeOverrides with the records of the override file taking precedence.
MergeOverrides_KeepPredefined(predefined, newly) == predefined @@ newly

\* final_overrides_dict = predefined_overrides.copy(); .update(newly_chosen_overrides)
MergeOverrides(predefined, newly) == newly @@ predefined

\* The question for the file name, the merge and the write of the override file.
PersistChoices ==
  /\ pc = "persist"
  /\ \E inp \in {"name", "eof"}, io_ok \in BOOLEAN :
       IF inp = "eof"
       THEN /\ stdin_eof' = TRUE
            /\ pc' = "crashed"
            /\ UNCHANGED saved_file
       ELSE /\ saved_file' =
                 IF io_ok
                 THEN Append(saved_file,
                        SortedValues(MergeOverrides(predefined_overrides,
                                                    newly_chosen_overrides)))
                 ELSE saved_file
            /\ pc' = "done"
            /\ UNCHANGED stdin_eof
  /\ UNCHANGED << inputs, predefined_overrides, banned_moves, eligible_pokemon_ids,
                  rank_idx, entry_vars, newly_chosen_overrides, overrides, stdout, rerun, save_choice >>

\* The script run again on the same documents, with the file it saved as its
\* --override-file.
RunAgain ==
  /\ pc = "done"
  /\ ~rerun
  /\ saved_file # <<>>
  /\ rerun' = TRUE
  /\ predefined_overrides' = LoadOverrides(saved_file[Len(saved_file)])
  /\ newly_chosen_overrides' = EmptyDict
  /\ banned_moves' = {}
  /\ eligible_pokemon_ids' = {}
  /\ pc' = "extract"
  /\ rank_idx' = 1
  /\ fast_move' = ""
  /\ slot' = 1
  /\ final_charged_moves' = <<>>
  /\ valid_alternatives' = <<>>
  /\ choice' = -1
  /\ overrides' = <<>>
  /\ stdout' = <<>>
  /\ stdin_eof' = FALSE
  /\ save_choice' = ""
  /\ UNCHANGED << inputs, saved_file >>

Next ==
  \/ ExtractRules
  \/ FastMoveHandling
  \/ FastPrompt
  \/ ChargedOverride
  \/ ChargedSlot
  \/ ChargedPrompt
  \/ TrackAndAssemble
  \/ SortAndPrint
  \/ SaveChoice
  \/ PersistChoices
  \/ RunAgain


Spec == Init /\ [][Next]_vars

\* ------------------------------------------------------------------ claims
Prompts == {"fast_prompt", "charged_prompt"}

\* The ranking entry of a species (a ranking names each species once).
RankOf(id) == rankings[CHOOSE i \in 1..Len(rankings) : rankings[i].speciesId = id]

PreferredChargedMoves(r) == UpperAll(Tail(r.moveset))

NoDuplicates(list) ==
  \A i, j \in 1..Len(list) : i # j => list[i] # list[j]

NoBannedMove(moveset) ==
  /\ moveset.fastMove \notin banned_moves
  /\ Range(moveset.chargedMoves) \cap banned_moves = {}

\* C1: no moveset assembled or printed has a banned fast move or a banned
\* charged move, whatever the ranking, the bans, the predefined overrides and
\* the answers at the prompts.
C1_NoBannedMoveEmitted ==
  /\ \A i \in 1..Len(overrides) : NoBannedMove(overrides[i])
  /\ \A d \in 1..Len(stdout) : \A i \in 1..Len(stdout[d]) : NoBannedMove(stdout[d][i])

\* A printed moveset whose preferred fast move and a preferred charged move
\* were both banned.
C1_Witness ==
  /\ stdout # <<>>
  /\ \E i \in 1..Len(stdout[1]) :
       LET r == RankOf(stdout[1][i].speciesId) IN
         /\ PreferredFastMove(r) \in banned_moves
         /\ Range(PreferredChargedMoves(r)) \cap banned_moves # {}

\* C2: the session run on the saved override file (same cup, catalog and
\* ranking) never asks for a replacement of a fast or charged move.
C2_NoPromptOnRerun == rerun => pc \notin Prompts

\* C3: the charged moves of an entry resolved move by move hold no move twice.
C3_NoDuplicateCharged ==
  (pc = "track" /\ ~TookOverrideVerbatim) => NoDuplicates(final_charged_moves)

\* C4: once a prompt for a replacement has read end-of-input, its loop is left:
\* the session has ended.
C4_PromptLeftOnEndOfInput == stdin_eof => pc \notin Prompts

\* C5: every printed list is in strictly ascending order of speciesId, so its
\* order is fixed by the set of species in it and not by the ranking's order.
C5_OutputSortedBySpeciesId ==
  \A d \in 1..Len(stdout) :
    \A i, j \in 1..Len(stdout[d]) :
      i < j => StrLess(stdout[d][i].speciesId, stdout[d][j].speciesId)

\* A printed list of two or more movesets whose first two species stood in
\* descending order in the ranking.
C5_Witness ==
  /\ stdout # <<>>
  /\ Len(stdout[1]) >= 2
  /\ Len(rankings) >= 2
  /\ StrLess(rankings[2].speciesId, rankings[1].speciesId)
  /\ {rankings[1].speciesId, rankings[2].speciesId}
       \subseteq {stdout[1][i].speciesId : i \in 1..Len(stdout[1])}

\* The entry at rank_idx is eligible and being resolved.
InEntry ==
  /\ pc \in {"loop", "fast_prompt", "charged", "slots", "charged_prompt", "track"}
  /\ rank_idx <= Len(rankings)
  /\ species_id \in eligible_pokemon_ids

\* d[key][field] as a list of one value, or the empty list when there is none.
FieldOf(d, key, field) ==
  IF key \in DOMAIN d /\ field \in DOMAIN d[key] THEN <<d[key][field]>> ELSE <<>>

InCatalog == species_id \in DOMAIN pokemon_data

\* The legal pool of the species minus the banned moves, as sets.
FastPool == {Upper(m) : m \in Range(pokemon_data[species_id].fastMoves)} \ banned_moves
ChargedPool ==
  ({Upper(m) : m \in Range(pokemon_data[species_id].chargedMoves)} \ banned_moves)
    \ Range(final_charged_moves)

LastOf(list) == list[Len(list)]

\* C6: an eligible entry whose preferred fast move is not banned keeps it,
\* upper-cased, up to the assembled moveset; no prompt for a fast move is reached
\* and no step of the entry changes the fastMove recorded under its key.
C6_UnbannedFastMoveKept ==
  [][ (InEntry /\ Upper(rank.moveset[1]) \notin banned_moves)
        => /\ pc' # "fast_prompt"
           /\ FieldOf(newly_chosen_overrides', species_key, "fastMove")
                = FieldOf(newly_chosen_overrides, species_key, "fastMove")
           /\ (pc = "loop" => (pc' = "charged" /\ fast_move' = Upper(rank.moveset[1])))
           /\ (pc = "track" => LastOf(overrides').fastMove = Upper(rank.moveset[1])) ]_vars

\* An entry ready to be assembled whose preferred fast move, written in lower
\* case in the ranking, is not banned, while a predefined fastMove exists for it.
C6_Witness ==
  /\ InEntry
  /\ pc = "track"
  /\ rank.moveset[1] # Upper(rank.moveset[1])
  /\ Upper(rank.moveset[1]) \notin banned_moves
  /\ HasOverrideField("fastMove")
  /\ banned_moves # {}

\* C7: a banned fast or charged move with exactly one valid alternative is
\* replaced by that alternative in the same step, without a prompt.
C7_SingleAlternativeAutoSelected ==
  [][ /\ ( /\ InEntry
           /\ pc = "loop"
           /\ PreferredFastMove(rank) \in banned_moves
           /\ InCatalog
           /\ Cardinality(FastPool) = 1 )
         => (pc' = "charged" /\ fast_move' \in FastPool)
      /\ ( /\ pc = "slots"
           /\ slot <= Len(current_charged_moves)
           /\ current_charged_moves[slot] \in banned_moves
           /\ InCatalog
           /\ Cardinality(ChargedPool) = 1 )
         => ( /\ pc' = "slots"
              /\ Len(final_charged_moves') = Len(final_charged_moves) + 1
              /\ LastOf(final_charged_moves') \in ChargedPool
              /\ SubSeq(final_charged_moves', 1, Len(final_charged_moves))
                   = final_charged_moves ) ]_vars

\* An entry whose banned fast move had one alternative, chosen although the
\* predefined fastMove names another move, and whose banned first charged move
\* had one alternative, now accepted.
C7_Witness ==
  /\ pc = "slots"
  /\ slot = 2
  /\ PreferredFastMove(rank) \in banned_moves
  /\ Cardinality(FastPool) = 1
  /\ fast_move \in FastPool
  /\ HasOverrideField("fastMove")
  /\ Upper(override_data.fastMove) # fast_move
  /\ current_charged_moves[1] \in banned_moves
  /\ Len(final_charged_moves) = 1
  /\ {Upper(m) : m \in Range(pokemon_data[species_id].chargedMoves)} \ banned_moves
       = {final_charged_moves[1]}

\* The predefined fastMove is no valid alternative of the banned preferred move.
PredefinedFastInvalid ==
  /\ HasOverrideField("fastMove")
  /\ PreferredFastMove(rank) \in banned_moves
  /\ InCatalog
  /\ Upper(override_data.fastMove) \notin FastPool

\* The predefined chargedMoves holds a banned move.
PredefinedChargedBanned ==
  /\ HasOverrideField("chargedMoves")
  /\ Range(UpperAll(override_data.chargedMoves)) \cap banned_moves # {}

\* C8 as claimed: a predefined fastMove that is no valid alternative leads to
\* the prompt, a predefined chargedMoves with a banned move leads to the move by
\* move resolution, neither is in the assembled moveset, and the entry is not
\* skipped.
C8_InvalidPredefinedLeadsToPrompt ==
  [][ /\ (InEntry /\ pc = "loop" /\ PredefinedFastInvalid)
         => (pc' = "fast_prompt" /\ rank_idx' = rank_idx)
      /\ (pc = "charged" /\ PredefinedChargedBanned)
         => (pc' = "slots" /\ final_charged_moves' = <<>> /\ rank_idx' = rank_idx)
      /\ (pc = "track")
         => /\ Len(overrides') = Len(overrides) + 1
            /\ LastOf(overrides').speciesId = species_id
            /\ PredefinedFastInvalid
                 => LastOf(overrides').fastMove # Upper(override_data.fastMove)
            /\ PredefinedChargedBanned
                 => LastOf(overrides').chargedMoves # UpperAll(override_data.chargedMoves)
    ]_vars

\* C8, amended: a predefined fastMove that is no valid alternative leads to the
\* prompt when there are two or more alternatives, to the single alternative
\* when there is one, and to the entry being skipped when there is none; a
\* predefined chargedMoves with a banned move leads to the move by move
\* resolution; neither is in the assembled moveset, and an entry past its fast
\* move handling is always assembled.
C8_InvalidPredefinedNeverUsed ==
  [][ /\ (InEntry /\ pc = "loop" /\ PredefinedFastInvalid /\ Cardinality(FastPool) > 1)
         => (pc' = "fast_prompt" /\ rank_idx' = rank_idx)
      /\ (InEntry /\ pc = "loop" /\ PredefinedFastInvalid /\ Cardinality(FastPool) = 1)
         => (pc' = "charged" /\ fast_move' \in FastPool /\ rank_idx' = rank_idx)
      /\ (InEntry /\ pc = "loop" /\ PredefinedFastInvalid /\ Cardinality(FastPool) = 0)
         => (pc' = "loop" /\ rank_idx' = rank_idx + 1 /\ overrides' = overrides)
      /\ (pc \in {"fast_prompt", "charged", "slots", "charged_prompt"})
         => ( /\ rank_idx' = rank_idx
              /\ overrides' = overrides
              /\ pc' \in {"fast_prompt", "charged", "slots", "charged_prompt", "track"} )
      /\ (pc = "charged" /\ PredefinedChargedBanned)
         => (pc' = "slots" /\ final_charged_moves' = <<>> /\ rank_idx' = rank_idx)
      /\ (pc = "track")
         => /\ Len(overrides') = Len(overrides) + 1
            /\ LastOf(overrides').speciesId = species_id
            /\ PredefinedFastInvalid
                 => LastOf(overrides').fastMove # Upper(override_data.fastMove)
            /\ PredefinedChargedBanned
                 => LastOf(overrides').chargedMoves # UpperAll(override_data.chargedMoves)
    ]_vars

\* An entry ready to be assembled whose predefined fastMove and predefined
\* chargedMoves were both rejected.
C8_Witness ==
  /\ pc = "track"
  /\ PredefinedFastInvalid
  /\ PredefinedChargedBanned
  /\ final_charged_moves # <<>>

\* C9: after a banned fast move was replaced by a move that is not the
\* predefined fastMove, that move is recorded as the fastMove of the species.
C9_FastReplacementRecorded ==
  ( /\ pc = "charged"
    /\ PreferredFastMove(rank) \in banned_moves
    /\ ~(HasOverrideField("fastMove") /\ Upper(override_data.fastMove) = fast_move) )
  => FieldOf(newly_chosen_overrides, species_key, "fastMove") = <<fast_move>>

\* C10: charged moves resolved move by move whose set differs from the
\* ranking's are recorded as the chargedMoves of the species.
C10_ChangedChargedMovesRecorded ==
  [][ ( /\ pc = "track"
        /\ Range(final_charged_moves) # Range(PreferredChargedMoves(rank))
        /\ ~TookOverrideVerbatim )
      => FieldOf(newly_chosen_overrides', species_key, "chargedMoves")
           = <<final_charged_moves>> ]_vars

\* The predefined record of the entry has a chargedMoves list with no banned move.
PredefinedChargedValid ==
  /\ HasOverrideField("chargedMoves")
  /\ Range(UpperAll(override_data.chargedMoves)) \cap banned_moves = {}

\* C11: an entry whose predefined record has a chargedMoves list with no banned
\* move, be it empty or short, goes from the check of the override straight to
\* the assembly, never through the move by move resolution or its prompt; the
\* moveset assembled has exactly that list and the weight of the record, and
\* the chargedMoves recorded under its key do not change.
C11_ValidChargedOverrideVerbatim ==
  [][ (InEntry /\ PredefinedChargedValid)
        => /\ pc' \notin {"slots", "charged_prompt"}
           /\ pc = "charged"
                => final_charged_moves' = UpperAll(override_data.chargedMoves)
           /\ pc = "track"
                => /\ LastOf(overrides').chargedMoves
                        = UpperAll(override_data.chargedMoves)
                   /\ HasOverrideField("weight")
                        => LastOf(overrides').weight = override_data.weight
                   /\ FieldOf(newly_chosen_overrides', species_key, "chargedMoves")
                        = FieldOf(newly_chosen_overrides, species_key, "chargedMoves")
    ]_vars

\* The extraction of the bans and of the eligible ids has run to its end.
Extracted == pc \notin {"extract", "crashed"} \/ (pc = "crashed" /\ stdin_eof)

\* The ids named by the exclude rules {"filterType": "id", "values": [...]}.
IdsOfIdExcludeRules ==
  UNION { Range(ValuesOf(ExcludeList(cup_definition)[i].dict)) :
            i \in { j \in 1..Len(ExcludeList(cup_definition)) :
                      /\ ExcludeList(cup_definition)[j].type = "dict"
                      /\ HasFilterType(ExcludeList(cup_definition)[j].dict, "id") } }

\* Every exclude entry is a rule {"filterType": "move", ...}.
OnlyMoveExcludeRules ==
  \A i \in 1..Len(ExcludeList(cup_definition)) :
    /\ ExcludeList(cup_definition)[i].type = "dict"
    /\ HasFilterType(ExcludeList(cup_definition)[i].dict, "move")

\* C12: once the rules are extracted, no id named in the values of an exclude
\* rule with filterType "id" is eligible or in an assembled moveset, also when
\* an include rule names it; exclude rules with filterType "move" remove no id,
\* so with only such rules the eligible ids are the included ones.
C12_ExclusionByIdWins ==
  Extracted =>
    /\ IdsOfIdExcludeRules \cap eligible_pokemon_ids = {}
    /\ \A i \in 1..Len(overrides) : overrides[i].speciesId \notin IdsOfIdExcludeRules
    /\ OnlyMoveExcludeRules => eligible_pokemon_ids = IncludedIds(cup_definition)

\* The bare identifier strings of the exclude list.
BareExcludedIds ==
  { ExcludeList(cup_definition)[i].str :
      i \in { j \in 1..Len(ExcludeList(cup_definition)) :
                ExcludeList(cup_definition)[j].type = "str" } }

\* C13: with a bare identifier string in the exclude list the extraction of the
\* bans and of the eligible ids raises no error, and after it the identifier is
\* not eligible.
C13_BareIdentifierExcluded ==
  BareExcludedIds # {} =>
    /\ ~(pc = "crashed" /\ ~stdin_eof)
    /\ Extracted => BareExcludedIds \cap eligible_pokemon_ids = {}

\* The step about to be taken needs an alternative for a banned move of the entry:
\* for its preferred fast move, or for the charged move of the current slot.
NeedsAlternative ==
  \/ pc = "loop" /\ PreferredFastMove(rank) \in banned_moves
  \/ /\ pc = "slots"
     /\ slot <= Len(current_charged_moves)
     /\ current_charged_moves[slot] \in banned_moves

\* C14: when an eligible entry needs an alternative for a banned fast or charged
\* move and its species has no catalog entry, the entry is skipped: the step goes
\* on to the next ranking entry and no moveset is assembled for the species.
C14_CatalogMissSkipsEntity ==
  [][ (InEntry /\ NeedsAlternative /\ ~InCatalog)
        => /\ pc' = "loop"
           /\ rank_idx' = rank_idx + 1
           /\ overrides' = overrides
    ]_vars

\* m is the store p with every key of n overwritten by the whole record of n.
IsMergedStore(m, p, n) ==
  /\ DOMAIN m = DOMAIN p \cup DOMAIN n
  /\ \A k \in DOMAIN m : m[k] = IF k \in DOMAIN n THEN n[k] ELSE p[k]

\* The records of the merged store: those of n, and those of p under other keys.
MergedRecords(p, n) ==
  { n[k] : k \in DOMAIN n } \cup { p[k] : k \in DOMAIN p \ DOMAIN n }

\* No record of the list comes before a record with a smaller speciesId.
SortedBySpeciesId(list) ==
  \A i, j \in 1..Len(list) :
    i < j => ~StrLess(list[j].speciesId, list[i].speciesId)

\* C15: at the step that persists, the merge of the predefined and the newly
\* chosen overrides is the predefined store with every key of the newly chosen
\* ones overwritten by their whole record; merging nothing gives the predefined
\* store, merging the newly chosen ones a second time changes nothing; and the
\* list written holds the merged records, each once, sorted by speciesId.
C15_MergeLaw ==
  [][ pc = "persist"
        => LET p == predefined_overrides
               n == newly_chosen_overrides
               m == MergeOverrides(p, n)
           IN  /\ IsMergedStore(m, p, n)
               /\ MergeOverrides(p, EmptyDict) = p
               /\ MergeOverrides(m, n) = m
               /\ saved_file' # saved_file
                    => /\ Range(LastOf(saved_file')) = MergedRecords(p, n)
                       /\ Len(LastOf(saved_file')) = Cardinality(DOMAIN p \cup DOMAIN n)
                       /\ SortedBySpeciesId(LastOf(saved_file'))
    ]_vars

\* A file was written in a session whose choices overwrote a record of the
\* override file it had loaded, and it holds more than one record.
C15_Witness ==
  /\ pc = "done"
  /\ ~rerun
  /\ saved_file # <<>>
  /\ DOMAIN predefined_overrides \cap DOMAIN newly_chosen_overrides # {}
  /\ Len(LastOf(saved_file)) > 1

\* The weight field of the predefined record of a species, 1 when it has none.
RecordWeight(id) ==
  IF /\ Lower(id) \in DOMAIN predefined_overrides
     /\ "weight" \in DOMAIN predefined_overrides[Lower(id)]
  THEN predefined_overrides[Lower(id)].weight
  ELSE 1

\* C16: every moveset assembled or printed has the weight of the predefined
\* record of its species when that record has a weight, and 1 otherwise,
\* whichever way its moves were resolved.
C16_WeightFromRecordOrOne ==
  /\ \A i \in 1..Len(overrides) :
       overrides[i].weight = RecordWeight(overrides[i].speciesId)
  /\ \A d \in 1..Len(stdout) : \A i \in 1..Len(stdout[d]) :
       stdout[d][i].weight = RecordWeight(stdout[d][i].speciesId)

\* A printed moveset with the weight of a predefined record whose chargedMoves
\* were rejected for a banned move.
C16_Witness ==
  /\ stdout # <<>>
  /\ \E i \in 1..Len(stdout[1]) :
       LET key == Lower(stdout[1][i].speciesId) IN
         /\ stdout[1][i].weight # 1
         /\ key \in DOMAIN predefined_overrides
         /\ "chargedMoves" \in DOMAIN predefined_overrides[key]
         /\ Range(UpperAll(predefined_overrides[key].chargedMoves)) \cap banned_moves # {}

\* A slot of the move by move resolution was left out: fewer moves were accepted
\* than slots were passed.
SlotOmitted == Len(final_charged_moves) < slot - 1

\* C17: a banned preferred fast move with no valid alternative ends the entry:
\* the step goes on to the next ranking entry, assembles no moveset and records
\* nothing. A banned preferred charged move with no valid alternative leaves out
\* its slot only: the resolution goes on with the next slot, the slot stays left
\* out up to the assembly, and the moveset assembled for the species has fewer
\* charged moves than the ranking prefers.
C17_NoAlternativeHandling ==
  [][ InEntry
        => /\ (pc = "loop" /\ PreferredFastMove(rank) \in banned_moves
                  /\ InCatalog /\ FastPool = {})
                => /\ pc' = "loop"
                   /\ rank_idx' = rank_idx + 1
                   /\ overrides' = overrides
                   /\ newly_chosen_overrides' = newly_chosen_overrides
           /\ (NeedsAlternative /\ pc = "slots" /\ InCatalog /\ ChargedPool = {})
                => /\ pc' = "slots"
                   /\ slot' = slot + 1
                   /\ final_charged_moves' = final_charged_moves
                   /\ SlotOmitted'
           /\ (pc \in {"slots", "charged_prompt"} /\ SlotOmitted)
                => /\ pc' \in {"slots", "charged_prompt", "track"}
                   /\ SlotOmitted'
           /\ (pc = "track" /\ SlotOmitted)
                => /\ overrides' = Append(overrides, LastOf(overrides'))
                   /\ LastOf(overrides').speciesId = species_id
                   /\ LastOf(overrides').chargedMoves = final_charged_moves
                   /\ Len(final_charged_moves) < Len(current_charged_moves)
    ]_vars

\* The fast moves of the catalog entry of a species are all banned.
AllFastMovesBanned(id) ==
  {Upper(m) : m \in Range(pokemon_data[id].fastMoves)} \subseteq banned_moves

\* The charged moves of the catalog entry of a species that are not banned are
\* fewer than the moves of the list.
FewerChargedMovesLeft(id, list) ==
  Cardinality({Upper(m) : m \in Range(pokemon_data[id].chargedMoves)} \ banned_moves)
    < Len(list)

\* A printed output with a moveset of fewer charged moves than its ranking entry
\* prefers, for a species of the catalog with no predefined record and too few
\* charged moves left, and without a species of the ranking and the catalog whose
\* fast moves are all banned, for which nothing was recorded.
C17_Witness ==
  /\ stdout # <<>>
  /\ \E i \in 1..Len(stdout[1]) :
       LET id == stdout[1][i].speciesId IN
         /\ id \in DOMAIN pokemon_data
         /\ Lower(id) \notin DOMAIN predefined_overrides
         /\ FewerChargedMovesLeft(id, PreferredChargedMoves(RankOf(id)))
         /\ Len(stdout[1][i].chargedMoves) < Len(PreferredChargedMoves(RankOf(id)))
  /\ \E j \in 1..Len(rankings) :
       LET id == rankings[j].speciesId IN
         /\ id \in eligible_pokemon_ids
         /\ id \in DOMAIN pokemon_data
         /\ AllFastMovesBanned(id)
         /\ \A i \in 1..Len(stdout[1]) : stdout[1][i].speciesId # id
         /\ Lower(id) \notin DOMAIN newly_chosen_overrides

\* The move of the menu that the last numeric answer names.
YieldedMove == valid_alternatives[choice]

\* C18: a prompt runs only on a menu of two or more moves; a round of it that
\* reads a number outside 1..len(menu), or no number, stays at the prompt and
\* changes no move and no record; the round that leaves it has read a number n of
\* 1..len(menu) and yields the n-th move of the menu, as the fast move or as the
\* next charged move.
C18_PromptYieldsPresentedMove ==
  [][ (pc \in Prompts)
        => /\ Len(valid_alternatives) >= 2
           /\ valid_alternatives' = valid_alternatives
           /\ (choice' < 1 \/ choice' > Len(valid_alternatives)) => (pc' = pc)
           /\ (pc' = pc)
                => /\ fast_move' = fast_move
                   /\ slot' = slot
                   /\ final_charged_moves' = final_charged_moves
                   /\ newly_chosen_overrides' = newly_chosen_overrides
           /\ (pc' # pc)
                => /\ choice' \in 1..Len(valid_alternatives)
                   /\ (pc = "fast_prompt")
                        => /\ pc' = "charged"
                           /\ fast_move' = YieldedMove'
                   /\ (pc = "charged_prompt")
                        => /\ pc' = "slots"
                           /\ final_charged_moves'
                                = Append(final_charged_moves, YieldedMove')
    ]_vars

\* The prompt for a charged move has just yielded the second move of its menu.
C18_Witness ==
  /\ pc = "slots"
  /\ choice = 2
  /\ Len(valid_alternatives) >= 2
  /\ final_charged_moves # <<>>
  /\ LastOf(final_charged_moves) = valid_alternatives[2]

\* The order of the last steps of a session, as far as a state shows it: the
\* output is printed at most once, only when the ranking loop is over, and it has
\* been printed once the script is back in __main__; the question whether to save
\* was asked, or answered with yes, only after the output and only with newly
\* chosen overrides.
TerminalOrder ==
  /\ Len(stdout) <= 1
  /\ stdout # <<>> => (rank_idx > Len(rankings) /\ pc \in {"main", "persist", "done", "crashed"})
  /\ pc \in {"main", "persist", "done"} => Len(stdout) = 1
  /\ (save_choice # "" \/ pc = "persist")
       => (Len(stdout) = 1 /\ newly_chosen_overrides # EmptyDict)
  /\ pc = "persist" => save_choice = "y"

\* C19: the output is printed exactly once, after the last ranking entry; the
\* question whether to save is asked only after it and only when overrides were
\* newly chosen; an override file is written only by the step that follows the
\* answer yes; and that step, whether the write succeeds or fails, leaves the
\* printed output as it is.
C19_TerminalStepsInOrder ==
  [][ /\ TerminalOrder'
      /\ (stdout' # stdout /\ stdout' # <<>>)
           => (pc = "loop" /\ rank_idx > Len(rankings) /\ stdout = <<>>)
      /\ saved_file' # saved_file => (pc = "persist" /\ save_choice = "y")
      /\ pc = "persist" => (stdout' = stdout /\ overrides' = overrides)
    ]_vars

\* The answer was yes and the write of the file failed: the session is over with
\* its output printed and no file written.
C19_Witness ==
  /\ pc = "done"
  /\ ~rerun
  /\ save_choice = "y"
  /\ saved_file = <<>>
  /\ Len(stdout) = 1
  /\ stdout[1] # <<>>

\* The positions of the moves of a catalog list that are not removed.
KeptPositions(source, removed) == { i \in 1..Len(source) : source[i] \notin removed }

\* list holds the moves of source that are not removed, each position once, in
\* the order of source: its k-th move is the k-th of those kept.
IsFilteredInOrder(list, source, removed) ==
  /\ Len(list) = Cardinality(KeptPositions(source, removed))
  /\ \A k \in 1..Len(list) :
       \E i \in KeptPositions(source, removed) :
         /\ list[k] = source[i]
         /\ Cardinality({ j \in KeptPositions(source, removed) : j < i }) = k - 1

\* C20: the alternatives computed for a banned fast move are the fast moves of
\* the catalog entry, upper-cased, without the banned ones, in the order of the
\* catalog entry; those computed for a banned charged move are the charged moves
\* of the catalog entry without the banned and the already accepted ones, in the
\* order of the catalog entry.
C20_AlternativesInCatalogOrder ==
  [][ (InEntry /\ NeedsAlternative /\ InCatalog)
        => /\ (pc = "loop")
                => IsFilteredInOrder(valid_alternatives',
                                     UpperAll(pokemon_data[species_id].fastMoves),
                                     banned_moves)
           /\ (pc = "slots")
                => IsFilteredInOrder(valid_alternatives',
                                     UpperAll(pokemon_data[species_id].chargedMoves),
                                     banned_moves \cup Range(final_charged_moves))
    ]_vars

\* The prompt for a charged move runs on a menu of two or more moves that lacks
\* a move of the catalog entry.
C20_Witness ==
  /\ pc = "charged_prompt"
  /\ InEntry
  /\ Len(valid_alternatives) >= 2
  /\ Len(valid_alternatives) < Len(pokemon_data[species_id].chargedMoves)

\* The charged moves of the catalog entry of the species that are neither banned
\* nor accepted so far; none for a species without a catalog entry.
ChargedPoolOrNone == IF InCatalog THEN ChargedPool ELSE {}

\* C21: an entry whose predefined chargedMoves hold a banned move is resolved
\* move by move over the charged moves of its ranking entry, from an empty list:
\* each of those that is not banned is appended at its slot; at the slot of a
\* banned one nothing is appended, or the only move left of the catalog entry
\* is, or the prompt appends a move left of the catalog entry; so no move is
\* taken for being in the predefined list, and the moveset assembled holds every
\* charged move of the ranking entry that is not banned.
C21_RejectedOverrideFallsBackToRanking ==
  [][ (InEntry /\ PredefinedChargedBanned)
        => LET preferred == PreferredChargedMoves(rank) IN
           /\ (pc = "charged")
                => (pc' = "slots" /\ slot' = 1 /\ final_charged_moves' = <<>>)
           /\ (pc = "slots" /\ slot > Len(preferred)) => (pc' = "track")
           /\ (pc = "slots" /\ slot <= Len(preferred))
                => IF preferred[slot] \notin banned_moves
                   THEN /\ final_charged_moves'
                             = Append(final_charged_moves, preferred[slot])
                        /\ slot' = slot + 1
                   ELSE \/ final_charged_moves' = final_charged_moves
                        \/ /\ Cardinality(ChargedPoolOrNone) = 1
                           /\ \E x \in ChargedPoolOrNone :
                                final_charged_moves' = Append(final_charged_moves, x)
           /\ (pc = "charged_prompt")
                => \/ final_charged_moves' = final_charged_moves
                   \/ \E x \in ChargedPoolOrNone :
                        final_charged_moves' = Append(final_charged_moves, x)
           /\ (pc = "track")
                => /\ LastOf(overrides').chargedMoves = final_charged_moves
                   /\ Range(preferred) \ banned_moves \subseteq Range(final_charged_moves)
    ]_vars

\* An entry is about to be assembled after its predefined chargedMoves were
\* rejected: a move of the ranking entry that is not banned is in its list, and a
\* move of the predefined list that is not banned is not.
C21_Witness ==
  /\ pc = "track"
  /\ InEntry
  /\ PredefinedChargedBanned
  /\ (Range(PreferredChargedMoves(rank)) \ banned_moves) # {}
  /\ (Range(UpperAll(override_data.chargedMoves)) \ banned_moves)
       \ Range(final_charged_moves) # {}

\* The fast move of a ranking entry cannot be resolved: it is banned and the
\* species has no catalog entry, or no fast move of its catalog entry is left.
FastResolutionFails(r) ==
  /\ Upper(r.moveset[1]) \in banned_moves
  /\ (r.speciesId \in DOMAIN pokemon_data => AllFastMovesBanned(r.speciesId))

\* How many movesets of a list are of a species.
MovesetsOf(list, id) == Cardinality({ i \in 1..Len(list) : list[i].speciesId = id })

\* How many movesets a ranking entry has to produce once it is processed.
MovesetsDue(r) ==
  IF r.speciesId \in eligible_pokemon_ids /\ ~FastResolutionFails(r) THEN 1 ELSE 0

\* C22: every moveset assembled or printed is of an eligible species of the
\* ranking; a ranking entry that has been processed has exactly one moveset when
\* its species is eligible and its fast move could be resolved, and none
\* otherwise; an entry not yet processed has none; the printed output has one
\* moveset for each entry that is due one; and every record of newly chosen
\* overrides was made for an eligible species of the ranking.
C22_OneMovesetPerEligibleEntry ==
  /\ \A i \in 1..Len(overrides) :
       /\ overrides[i].speciesId \in eligible_pokemon_ids
       /\ \E j \in 1..Len(rankings) : rankings[j].speciesId = overrides[i].speciesId
  /\ \A j \in 1..Len(rankings) :
       MovesetsOf(overrides, rankings[j].speciesId)
         = IF j < rank_idx THEN MovesetsDue(rankings[j]) ELSE 0
  /\ \A d \in 1..Len(stdout) :
       /\ \A i \in 1..Len(stdout[d]) :
            \E j \in 1..Len(rankings) : rankings[j].speciesId = stdout[d][i].speciesId
       /\ \A j \in 1..Len(rankings) :
            MovesetsOf(stdout[d], rankings[j].speciesId) = MovesetsDue(rankings[j])
  /\ \A k \in DOMAIN newly_chosen_overrides :
       /\ newly_chosen_overrides[k].speciesId \in eligible_pokemon_ids
       /\ \E j \in 1..Len(rankings) :
            rankings[j].speciesId = newly_chosen_overrides[k].speciesId

\* A printed output of one moveset for a ranking of two entries, the other of a
\* species that is not eligible.
C22_Witness ==
  /\ stdout # <<>>
  /\ Len(stdout[1]) = 1
  /\ Len(rankings) = 2
  /\ \E j \in 1..Len(rankings) : rankings[j].speciesId \notin eligible_pokemon_ids

\* The fields of a predefined record that persisting has to carry over.
OverrideFields == {"fastMove", "chargedMoves", "weight"}

\* C23: the override file written at the end of a session has, for every key of
\* the predefined overrides, a record with the predefined weight and with every
\* predefined fastMove and chargedMoves for which the session recorded no new
\* value.
C23_PersistKeepsPredefinedFields ==
  [][ saved_file' # saved_file
        => LET written == LoadOverrides(LastOf(saved_file')) IN
           \A k \in DOMAIN predefined_overrides :
             \A f \in OverrideFields :
               FieldOf(newly_chosen_overrides, k, f) = <<>>
                 => FieldOf(written, k, f) = FieldOf(predefined_overrides, k, f)
    ]_vars

\* The script is between two ranking entries or past the ranking loop.
BetweenEntries == pc \in {"loop", "main", "persist", "done"}

\* The moveset agrees with a record of newly chosen overrides: it has the
\* fastMove and the chargedMoves that the record holds.
AgreesWith(moveset, record) ==
  /\ "fastMove" \in DOMAIN record => moveset.fastMove = record.fastMove
  /\ "chargedMoves" \in DOMAIN record => moveset.chargedMoves = record.chargedMoves

\* C24: between two ranking entries and after the loop, every key of the newly
\* chosen overrides is the lower-cased speciesId of an assembled moveset whose
\* fastMove and chargedMoves are those the record holds.
C24_RecordsAgreeWithOutput ==
  BetweenEntries =>
    \A k \in DOMAIN newly_chosen_overrides :
      \E i \in 1..Len(overrides) :
        /\ Lower(overrides[i].speciesId) = k
        /\ AgreesWith(overrides[i], newly_chosen_overrides[k])

====
